---- MODULE Spec2Model ----
(***************************************************************************)
(* heybeauty-mcp: the MCP request handlers (index.ts) and the HeyBeauty    *)
(* API client (heybeauty.ts), as a state machine.  One request is handled  *)
(* at a time: a handler runs up to its `await fetch(...)`, the remote      *)
(* answers, and the handler runs to its return or throw.                   *)
(***************************************************************************)
EXTENDS Integers, Sequences, FiniteSets, TLC

\* Longest clothing list the remote returns in the model.
MaxClothes == 2

(***************************************************************************)
(* JavaScript values.  Every value is a record [t, v]: t is the JS type,   *)
(* v the string (or the digits of the number).                             *)
(***************************************************************************)
Undef == [t |-> "undefined", v |-> ""]
Str(s) == [t |-> "string", v |-> s]
Num(n) == [t |-> "number", v |-> ToString(n)]

\* ToBoolean, as `!x`, `if (x)` and `x || y` use it.
Truthy(x) == x.t = "string" /\ x.v # ""

\* x || d
OrElse(x, d) == IF Truthy(x) THEN x ELSE d

\* String(x)
JSString(x) == IF x.t \in {"string", "number"} THEN x.v ELSE x.t

\* JSON.stringify of an object: a property whose value is undefined is left out.
JSONStringify(obj) == [k \in {f \in DOMAIN obj : obj[f].t # "undefined"} |-> obj[k]]

(***************************************************************************)
(* Text that is taken apart (cloth ids, resource URIs) is a sequence of    *)
(* one-character strings; Join makes the string of it.                     *)
(***************************************************************************)
RECURSIVE Join(_)
Join(cs) == IF cs = <<>> THEN "" ELSE Head(cs) \o Join(Tail(cs))

RECURSIVE Flatten(_)
Flatten(ss) == IF ss = <<>> THEN <<>> ELSE Head(ss) \o Flatten(Tail(ss))

\* Index of the first element of cs that is in set, 0 when there is none.
RECURSIVE FirstIn(_, _, _)
FirstIn(cs, set, i) ==
    IF i > Len(cs) THEN 0
    ELSE IF cs[i] \in set THEN i
    ELSE FirstIn(cs, set, i + 1)

\* `cloth:///${clothe.cloth_id}`
ResourceURI(cloth_id) == <<"c", "l", "o", "t", "h", ":", "/", "/", "/">> \o cloth_id

(***************************************************************************)
(* new URL(uri).pathname for a URL of a non-special scheme (WHATWG URL).   *)
(***************************************************************************)
SchemeChars == {"a", "b", "c", "h", "l", "o", "t"}

\* The path percent-encode set, as far as the model's alphabet reaches.
PercentEncode(c) ==
    CASE c = " " -> <<"%", "2", "0">>
      [] c = "<" -> <<"%", "3", "C">>
      [] c = ">" -> <<"%", "3", "E">>
      [] OTHER -> <<c>>

EncodeSegment(seg) == Flatten([i \in 1..Len(seg) |-> PercentEncode(seg[i])])

\* Leading and trailing spaces are stripped from the input.
RECURSIVE TrimLeft(_)
TrimLeft(cs) == IF cs # <<>> /\ Head(cs) = " " THEN TrimLeft(Tail(cs)) ELSE cs

RECURSIVE TrimRight(_)
TrimRight(cs) ==
    IF cs # <<>> /\ cs[Len(cs)] = " " THEN TrimRight(SubSeq(cs, 1, Len(cs) - 1)) ELSE cs

\* The segments of a path, split at "/".
RECURSIVE SplitPath(_)
SplitPath(cs) ==
    LET i == FirstIn(cs, {"/"}, 1)
    IN  IF i = 0 THEN <<cs>>
        ELSE <<SubSeq(cs, 1, i - 1)>> \o SplitPath(SubSeq(cs, i + 1, Len(cs)))

\* The path state: dot segments are resolved, the others percent-encoded.
RECURSIVE WalkPath(_, _, _)
WalkPath(segs, i, path) ==
    IF i > Len(segs) THEN path
    ELSE LET seg == segs[i]
             last == (i = Len(segs))
             popped == IF path = <<>> THEN path ELSE SubSeq(path, 1, Len(path) - 1)
             next == CASE seg = <<".", ".">> ->
                              IF last THEN Append(popped, <<>>) ELSE popped
                        [] seg = <<".">> ->
                              IF last THEN Append(path, <<>>) ELSE path
                        [] OTHER -> Append(path, EncodeSegment(seg))
         IN  WalkPath(segs, i + 1, next)

SerializePath(path) == Flatten([i \in 1..Len(path) |-> <<"/">> \o path[i]])

\* [valid, pathname] of new URL(uri): valid = FALSE is the TypeError "Invalid URL".
ParseURL(uri) ==
    LET s == TrimRight(TrimLeft(uri))
        colon == FirstIn(s, {":"}, 1)
        after == SubSeq(s, colon + 1, Len(s))
        stop == FirstIn(after, {"?", "#"}, 1)
        x == IF stop = 0 THEN after ELSE SubSeq(after, 1, stop - 1)
        afterHost == SubSeq(x, 3, Len(x))
        slash == FirstIn(afterHost, {"/"}, 1)
    IN  IF colon < 2 \/ \E i \in 1..(colon - 1) : s[i] \notin SchemeChars
        THEN [valid |-> FALSE, pathname |-> <<>>]
        ELSE IF Len(x) >= 2 /\ x[1] = "/" /\ x[2] = "/"
        THEN [valid |-> TRUE,
              pathname |-> IF slash = 0 THEN <<>>
                           ELSE SerializePath(WalkPath(
                                    SplitPath(SubSeq(afterHost, slash + 1, Len(afterHost))),
                                    1, <<>>))]
        ELSE IF Len(x) >= 1 /\ x[1] = "/"
        THEN [valid |-> TRUE,
              pathname |-> SerializePath(WalkPath(SplitPath(Tail(x)), 1, <<>>))]
        ELSE [valid |-> TRUE, pathname |-> x]

\* url.pathname.replace(/^\//, "")
StripLeadingSlash(pathname) ==
    IF pathname # <<>> /\ Head(pathname) = "/" THEN Tail(pathname) ELSE pathname

(***************************************************************************)
(* HeyBeautyClient (heybeauty.ts).                                         *)
(***************************************************************************)
apiBaseUrl == "https://heybeauty.ai/api"

\* Mutant of RespOk: only the 4xx and 5xx statuses count as failures.
RespOkBelow400(status) == status >= 200 /\ status <= 399

\* resp.ok
RespOk(status) == status >= 200 /\ status <= 299

\* Mutant of EnvelopeFails: only a positive code counts as a failure.
EnvelopeFailsPositive(code) == code > 0

\* code !== 0
EnvelopeFails(code) == code # 0

\* What a client method hands back: a value, or the message of the Error thrown.
\* parsed counts the calls of resp.json().
Returned(value, parsed) == [ok |-> TRUE, error |-> "", value |-> value, parsed |-> parsed]
Threw(message, parsed) == [ok |-> FALSE, error |-> message, value |-> Undef, parsed |-> parsed]

\* From the settled fetch to the envelope's data: the status check, resp.json(),
\* the code check.  The three methods repeat it; statusText is their wording.
Unwrap(rsp, statusText) ==
    IF rsp.net THEN Threw("fetch failed", 0)
    ELSE IF ~RespOk(rsp.status) THEN Threw(statusText \o ToString(rsp.status), 0)
    ELSE IF ~rsp.json THEN Threw("Unexpected end of JSON input", 1)
    ELSE IF EnvelopeFails(rsp.code) THEN Threw(rsp.message, 1)
    ELSE Returned(rsp.data, 1)

HttpCall(path, apiKey, contentType, body) ==
    [url |-> apiBaseUrl \o path, method |-> "POST", bearer |-> apiKey,
     contentType |-> contentType, body |-> JSONStringify(body)]

\* getClothes up to its fetch.
GetClothesCall(apiKey) ==
    HttpCall("/get-clothes", apiKey, FALSE, [page |-> Num(1), limit |-> Num(10)])

\* getClothes after its fetch.
GetClothesReturn(rsp) == Unwrap(rsp, "request failed with status ")

\* Mutant of SubmitInvalid: && in place of ||.
SubmitInvalidBoth(user_img_url, cloth_img_url) ==
    ~Truthy(user_img_url) /\ ~Truthy(cloth_img_url)

\* !user_img_url || !cloth_img_url
SubmitInvalid(user_img_url, cloth_img_url) ==
    ~Truthy(user_img_url) \/ ~Truthy(cloth_img_url)

\* Mutant of SubmitBody: the optional keys are set without their `if`.
SubmitBodyAlways(user_img_url, cloth_img_url, cloth_id, cloth_description) ==
    [user_img_url |-> user_img_url, cloth_img_url |-> cloth_img_url,
     category |-> Str("1"), is_sync |-> Str("0"),
     cloth_id |-> cloth_id, caption |-> cloth_description]

\* The request body submitTask builds.
SubmitBody(user_img_url, cloth_img_url, cloth_id, cloth_description) ==
    LET req0 == [user_img_url |-> user_img_url, cloth_img_url |-> cloth_img_url,
                 category |-> Str("1"), is_sync |-> Str("0")]
        req1 == IF Truthy(cloth_id) THEN req0 @@ ("cloth_id" :> cloth_id) ELSE req0
    IN  IF Truthy(cloth_description) THEN req1 @@ ("caption" :> cloth_description)
        ELSE req1

\* submitTask up to its fetch: [ok, error, call].
SubmitTaskStart(apiKey, a) ==
    IF SubmitInvalid(a.user_img_url, a.cloth_img_url)
    THEN [ok |-> FALSE, error |-> "user_img_url and cloth_img_url are required",
          call |-> <<>>]
    ELSE [ok |-> TRUE, error |-> "",
          call |-> <<HttpCall("/mcp-vton", apiKey, FALSE,
                              SubmitBody(a.user_img_url, a.cloth_img_url,
                                         a.cloth_id, a.cloth_description))>>]

\* data.tryon_img_url || ""
TryonImgUrl(data) == OrElse(data.tryon_img_url, Str(""))

\* The object submitTask returns.
SubmitResult(data) ==
    [task_id |-> data.uuid, created_at |-> data.created_at,
     updated_at |-> data.updated_at, status |-> data.status,
     tryon_img_url |-> TryonImgUrl(data)]

\* submitTask after its fetch.
SubmitTaskReturn(rsp) ==
    LET u == Unwrap(rsp, "request failed with status ")
    IN  IF ~u.ok THEN u
        ELSE IF u.value.t # "object"
        THEN Threw("Cannot read properties of null (reading 'uuid')", u.parsed)
        ELSE Returned([t |-> "object", v |-> SubmitResult(u.value.v)], u.parsed)

\* queryTask up to its fetch.
QueryTaskCall(apiKey, task_id) ==
    HttpCall("/get-task-info", apiKey, TRUE, [task_uuid |-> Str(task_id)])

\* Mutant of QueryResult: task_id read from the remote data, as submitTask does.
QueryResultFromData(task_id, data) ==
    [task_id |-> data.uuid, created_at |-> data.created_at,
     updated_at |-> data.updated_at, status |-> data.status,
     tryon_img_url |-> TryonImgUrl(data)]

\* The object queryTask returns.
QueryResult(task_id, data) ==
    [task_id |-> Str(task_id), created_at |-> data.created_at,
     updated_at |-> data.updated_at, status |-> data.status,
     tryon_img_url |-> TryonImgUrl(data)]

\* queryTask after its fetch.
QueryTaskReturn(task_id, rsp) ==
    LET u == Unwrap(rsp, "request failed with status: ")
    IN  IF ~u.ok THEN u
        ELSE IF u.value.t # "object"
        THEN Threw("Cannot read properties of null (reading 'created_at')", u.parsed)
        ELSE Returned([t |-> "object", v |-> QueryResult(task_id, u.value.v)], u.parsed)

(***************************************************************************)
(* The request handlers (index.ts).                                        *)
(***************************************************************************)
\* getAuthValue(request, "HEYBEAUTY_API_KEY") || heybeautyApiKey
EffectiveApiKey(auth, configured) == OrElse(auth, Str(configured)).v

\* Mutant of ApiKeyMissing: the key is compared with undefined, which it never is.
ApiKeyUndefined(apiKey) == FALSE

\* !apiKey
ApiKeyMissing(apiKey) == apiKey = ""

\* Mutant of Rethrow: the cause is passed on without the handler's prefix.
RethrowBare(kind, cause) == cause

\* What the handler's catch throws for an error with message `cause`.  GetPrompt
\* has no catch, and the client's methods rethrow what they caught.
Rethrow(kind, cause) ==
    CASE kind = "ListResources" -> "get resources failed: " \o cause
      [] kind = "ReadResource" -> "read resource failed: " \o cause
      [] kind = "CallTool" -> "call tool failed: " \o cause
      [] OTHER -> cause

\* How a handler run ends or suspends: pc "fetch" is the pending `await fetch`.
Fail(kind, cause, calls, parsed) ==
    [pc |-> "done", http |-> calls, parsed |-> parsed, thrown |-> Str(cause),
     result |-> [ok |-> FALSE, error |-> Rethrow(kind, cause), value |-> Undef]]

Succeed(value, calls, parsed) ==
    [pc |-> "done", http |-> calls, parsed |-> parsed, thrown |-> Undef,
     result |-> [ok |-> TRUE, error |-> "", value |-> value]]

Await(call) ==
    [pc |-> "fetch", http |-> <<call>>, parsed |-> 0, thrown |-> Undef,
     result |-> [ok |-> TRUE, error |-> "", value |-> Undef]]

\* String(request.params.arguments?.x || "")
ArgOrEmpty(x) == Str(JSString(OrElse(x, Str(""))))

\* String(request.params.arguments?.task_id)
TaskIdArg(x) == JSString(x)

\* Mutant of TaskIdMissing: the test is made on the text of a missing argument.
TaskIdUndefinedText(task_id) == task_id = "undefined"

\* !task_id
TaskIdMissing(task_id) == task_id = ""

\* The arguments the submit_tryon_task case hands to submitTask.
SubmitArgs(args) ==
    [user_img_url |-> ArgOrEmpty(args.user_img_url),
     cloth_img_url |-> ArgOrEmpty(args.cloth_img_url),
     cloth_id |-> ArgOrEmpty(args.cloth_id),
     cloth_description |-> ArgOrEmpty(args.cloth_description)]

\* The task_id queryTask runs with.
QueryTaskId(r) ==
    IF r.kind = "CallTool" THEN TaskIdArg(r.args.task_id) ELSE r.args.task_id.v

\* The static answers.
ToolList ==
    [tools |-> <<[name |-> "submit_tryon_task",
                  properties |-> {"user_img_url", "cloth_img_url", "cloth_id",
                                  "cloth_description"},
                  required |-> {"user_img_url", "cloth_img_url"}],
                 [name |-> "query_tryon_task",
                  properties |-> {"task_id"},
                  required |-> {"task_id"}]>>]

PromptList ==
    [prompts |-> <<[name |-> "tryon_cloth",
                    description |-> "Tryon with user image and cloth image"]>>]

PromptMessages ==
    [messages |-> <<[role |-> "user",
                     content |-> [type |-> "text", text |-> "tryon instructions"]]>>]

\* A handler (or a client method called directly) from its entry to its first
\* await, or to its end when it reaches none.
Start(r, configured) ==
    LET apiKey == IF r.kind \in {"ListResources", "ReadResource", "CallTool"}
                  THEN EffectiveApiKey(r.auth, configured)
                  ELSE r.auth.v
    IN  CASE r.kind = "ListTools" -> Succeed(ToolList, <<>>, 0)
          [] r.kind = "ListPrompts" -> Succeed(PromptList, <<>>, 0)
          [] r.kind = "GetPrompt" ->
                IF r.name # "tryon_cloth" THEN Fail(r.kind, "Unknown prompt", <<>>, 0)
                ELSE Succeed(PromptMessages, <<>>, 0)
          [] r.kind = "getClothes" -> Await(GetClothesCall(apiKey))
          [] r.kind = "queryTask" -> Await(QueryTaskCall(apiKey, QueryTaskId(r)))
          [] r.kind = "submitTask" ->
                LET s == SubmitTaskStart(apiKey, r.args)
                IN  IF s.ok THEN Await(s.call[1]) ELSE Fail(r.kind, s.error, <<>>, 0)
          [] r.kind = "ListResources" ->
                IF ApiKeyMissing(apiKey)
                THEN Fail(r.kind, "HEYBEAUTY_API_KEY is not set", <<>>, 0)
                ELSE Await(GetClothesCall(apiKey))
          [] r.kind = "ReadResource" ->
                IF ApiKeyMissing(apiKey)
                THEN Fail(r.kind, "HEYBEAUTY_API_KEY is not set", <<>>, 0)
                ELSE IF ~ParseURL(r.uri).valid THEN Fail(r.kind, "Invalid URL", <<>>, 0)
                ELSE Await(GetClothesCall(apiKey))
          [] r.kind = "CallTool" ->
                IF ApiKeyMissing(apiKey)
                THEN Fail(r.kind, "HEYBEAUTY_API_KEY is not set", <<>>, 0)
                ELSE IF r.name = "submit_tryon_task"
                THEN LET a == SubmitArgs(r.args)
                         s == SubmitTaskStart(apiKey, a)
                     IN  IF ~Truthy(a.user_img_url)
                         THEN Fail(r.kind, "user image is required", <<>>, 0)
                         ELSE IF ~Truthy(a.cloth_img_url)
                         THEN Fail(r.kind, "cloth image is required", <<>>, 0)
                         ELSE IF s.ok THEN Await(s.call[1])
                         ELSE Fail(r.kind, s.error, <<>>, 0)
                ELSE IF r.name = "query_tryon_task"
                THEN IF TaskIdMissing(QueryTaskId(r))
                     THEN Fail(r.kind, "task id is required", <<>>, 0)
                     ELSE Await(QueryTaskCall(apiKey, QueryTaskId(r)))
                ELSE Fail(r.kind, "Unknown tool", <<>>, 0)

\* clothes.map(...) of the list handler.
Resources(clothes) ==
    [i \in 1..Len(clothes) |->
        [uri |-> ResourceURI(clothes[i].cloth_id), mimeType |-> "text/plain",
         name |-> clothes[i].title, description |-> clothes[i].description]]

\* clothes.find((clothe) => clothe.cloth_id == id): the index found, 0 for none.
RECURSIVE FindCloth(_, _, _)
FindCloth(clothes, id, i) ==
    IF i > Len(clothes) THEN 0
    ELSE IF clothes[i].cloth_id = id THEN i
    ELSE FindCloth(clothes, id, i + 1)

\* The text content of a tool's answer.
ToolContent(res) == [content |-> <<[type |-> "text", text |-> JSONStringify(res.v)]>>]

\* The handler (or client method) from its settled fetch to its end.
Finish(r, calls, rsp) ==
    LET c == CASE r.kind \in {"getClothes", "ListResources", "ReadResource"} ->
                      GetClothesReturn(rsp)
               [] r.kind = "submitTask" \/ (r.kind = "CallTool" /\ r.name = "submit_tryon_task") ->
                      SubmitTaskReturn(rsp)
               [] OTHER -> QueryTaskReturn(QueryTaskId(r), rsp)
        id == StripLeadingSlash(ParseURL(r.uri).pathname)
    IN  IF ~c.ok THEN Fail(r.kind, c.error, calls, c.parsed)
        ELSE CASE r.kind = "ListResources" ->
                      IF c.value.t # "array"
                      THEN Fail(r.kind, "Cannot read properties of null (reading 'map')",
                                calls, c.parsed)
                      ELSE Succeed([resources |-> Resources(c.value.v)], calls, c.parsed)
               [] r.kind = "ReadResource" ->
                      IF c.value.t # "array"
                      THEN Fail(r.kind, "Cannot read properties of null (reading 'find')",
                                calls, c.parsed)
                      ELSE LET i == FindCloth(c.value.v, id, 1)
                           IN  IF i = 0
                               THEN Fail(r.kind, "Cloth " \o Join(id) \o " not found",
                                         calls, c.parsed)
                               ELSE Succeed([contents |->
                                                <<[uri |-> r.uri, mimeType |-> "text/plain",
                                                   text |-> c.value.v[i].cloth_img_url]>>],
                                            calls, c.parsed)
               [] r.kind = "CallTool" -> Succeed(ToolContent(c.value), calls, c.parsed)
               [] OTHER -> Succeed(c.value, calls, c.parsed)

\* Mutant of Settle: a failed call is issued once more.
SettleRetry(r, calls, rsp) ==
    LET o == Finish(r, calls, rsp)
    IN  IF ~o.result.ok /\ Len(calls) < 2
        THEN [o EXCEPT !.pc = "fetch", !.http = Append(calls, calls[1])]
        ELSE o

\* The single `await client.method(...)` of a handler: its fetch settles once and
\* the handler runs on to its end.
Settle(r, calls, rsp) == Finish(r, calls, rsp)

(***************************************************************************)
(* The inputs: what a caller can send and what the remote can answer.      *)
(***************************************************************************)
AuthValues == {Undef, Str(""), Str("key-of-request")}
ConfiguredKeys == {"", "key-of-process"}
ClientKeys == {"", "key-of-client"}
ToolNames == {"submit_tryon_task", "query_tryon_task", "other_tool"}
PromptNames == {"tryon_cloth", "other_prompt"}

ArgValues(s) == {Undef, Str(""), Str(s)}

NoArgs ==
    [user_img_url |-> Undef, cloth_img_url |-> Undef, cloth_id |-> Undef,
     cloth_description |-> Undef, task_id |-> Undef]

SubmitToolArgs ==
    {[NoArgs EXCEPT !.user_img_url = u, !.cloth_img_url = c, !.cloth_id = i,
                    !.cloth_description = d] :
        u \in ArgValues("https://x/u.jpg"), c \in ArgValues("https://x/c.jpg"),
        i \in ArgValues("c-7"), d \in ArgValues("red coat")}

QueryToolArgs == {[NoArgs EXCEPT !.task_id = t] : t \in ArgValues("t-1")}

\* submitTask's parameters are typed: the urls are strings, the rest optional.
SubmitClientArgs ==
    {[NoArgs EXCEPT !.user_img_url = u, !.cloth_img_url = c, !.cloth_id = i,
                    !.cloth_description = d] :
        u \in {Str(""), Str("https://x/u.jpg")}, c \in {Str(""), Str("https://x/c.jpg")},
        i \in ArgValues("c-7"), d \in ArgValues("red coat")}

QueryClientArgs == {[NoArgs EXCEPT !.task_id = t] : t \in {Str(""), Str("t-1")}}

ClothIds == {<<"a">>, <<"b">>, <<"a", " ", "b">>, <<"a", "?", "b">>, <<".">>}
ImgUrls == {"https://x/1.jpg", "https://x/2.jpg"}

ClothingItems ==
    {[cloth_id |-> i, title |-> "coat", description |-> "red coat", cloth_img_url |-> u] :
        i \in ClothIds, u \in ImgUrls}

ClothLists == UNION {[1..n -> ClothingItems] : n \in 0..MaxClothes}

ResourceURIs == {ResourceURI(i) : i \in ClothIds} \cup {<<"a", "b">>}

TaskRecords ==
    {[uuid |-> u, created_at |-> Str("2025-01-01"), updated_at |-> Str("2025-01-02"),
      status |-> s, tryon_img_url |-> t] :
        u \in {Undef, Str("t-1"), Str("abc123")},
        s \in {Str("pending"), Str("succeeded")},
        t \in {Undef, Str(""), Str("https://x/t.jpg")}}

NoData == [t |-> "null", v |-> <<>>]

ClothesData == {NoData} \cup {[t |-> "array", v |-> l] : l \in ClothLists}
TaskData == {NoData} \cup {[t |-> "object", v |-> d] : d \in TaskRecords}

Statuses == {199, 200, 299, 300, 404}
Codes == {0, 1, -1}
Messages == {"", "invalid api key"}

NoResp ==
    [net |-> FALSE, status |-> 0, json |-> FALSE, code |-> 0, message |-> "",
     data |-> NoData]

\* A fetch ends in a network error, or in a response whose body is no JSON, or in
\* a response whose body is an envelope.
Responses(data) ==
    {[NoResp EXCEPT !.net = TRUE]}
    \cup {[NoResp EXCEPT !.status = s] : s \in Statuses}
    \cup {[net |-> FALSE, status |-> s, json |-> TRUE, code |-> c, message |-> m,
           data |-> d] : s \in Statuses, c \in Codes, m \in Messages, d \in data}

\* The endpoint a pending call went to decides what data the remote holds.
ResponsesFor(call) ==
    IF call.url = apiBaseUrl \o "/get-clothes" THEN Responses(ClothesData)
    ELSE Responses(TaskData)

(***************************************************************************)
(* The state machine.                                                      *)
(***************************************************************************)
VARIABLES heybeautyApiKey, pc, req, http, resp, parsed, thrown, result

vars == <<heybeautyApiKey, pc, req, http, resp, parsed, thrown, result>>

NoReq == [kind |-> "none", auth |-> Undef, uri |-> <<>>, name |-> "", args |-> NoArgs]
NoResult == [ok |-> TRUE, error |-> "", value |-> Undef]

Init ==
    /\ heybeautyApiKey \in ConfiguredKeys
    /\ pc = "idle"
    /\ req = NoReq
    /\ http = <<>>
    /\ resp = NoResp
    /\ parsed = 0
    /\ thrown = Undef
    /\ result = NoResult

\* The arguments a caller can send with a tool's name.
ToolArgs(n) ==
    IF n = "submit_tryon_task" THEN SubmitToolArgs
    ELSE IF n = "query_tryon_task" THEN QueryToolArgs
    ELSE {NoArgs}

ListResources ==
    /\ pc = "idle"
    /\ \E a \in AuthValues :
          LET r == [NoReq EXCEPT !.kind = "ListResources", !.auth = a]
              o == Start(r, heybeautyApiKey)
          IN  /\ req' = r
              /\ pc' = o.pc
              /\ http' = o.http
              /\ parsed' = o.parsed
              /\ thrown' = o.thrown
              /\ result' = o.result
    /\ UNCHANGED <<heybeautyApiKey, resp>>

ReadResource ==
    /\ pc = "idle"
    /\ \E a \in AuthValues, u \in ResourceURIs :
          LET r == [NoReq EXCEPT !.kind = "ReadResource", !.auth = a, !.uri = u]
              o == Start(r, heybeautyApiKey)
          IN  /\ req' = r
              /\ pc' = o.pc
              /\ http' = o.http
              /\ parsed' = o.parsed
              /\ thrown' = o.thrown
              /\ result' = o.result
    /\ UNCHANGED <<heybeautyApiKey, resp>>

ListTools ==
    /\ pc = "idle"
    /\ \E a \in AuthValues :
          LET r == [NoReq EXCEPT !.kind = "ListTools", !.auth = a]
              o == Start(r, heybeautyApiKey)
          IN  /\ req' = r
              /\ pc' = o.pc
              /\ http' = o.http
              /\ parsed' = o.parsed
              /\ thrown' = o.thrown
              /\ result' = o.result
    /\ UNCHANGED <<heybeautyApiKey, resp>>

CallTool ==
    /\ pc = "idle"
    /\ \E a \in AuthValues, n \in ToolNames : \E g \in ToolArgs(n) :
          LET r == [NoReq EXCEPT !.kind = "CallTool", !.auth = a, !.name = n, !.args = g]
              o == Start(r, heybeautyApiKey)
          IN  /\ req' = r
              /\ pc' = o.pc
              /\ http' = o.http
              /\ parsed' = o.parsed
              /\ thrown' = o.thrown
              /\ result' = o.result
    /\ UNCHANGED <<heybeautyApiKey, resp>>

ListPrompts ==
    /\ pc = "idle"
    /\ \E a \in AuthValues :
          LET r == [NoReq EXCEPT !.kind = "ListPrompts", !.auth = a]
              o == Start(r, heybeautyApiKey)
          IN  /\ req' = r
              /\ pc' = o.pc
              /\ http' = o.http
              /\ parsed' = o.parsed
              /\ thrown' = o.thrown
              /\ result' = o.result
    /\ UNCHANGED <<heybeautyApiKey, resp>>

GetPrompt ==
    /\ pc = "idle"
    /\ \E a \in AuthValues, n \in PromptNames :
          LET r == [NoReq EXCEPT !.kind = "GetPrompt", !.auth = a, !.name = n]
              o == Start(r, heybeautyApiKey)
          IN  /\ req' = r
              /\ pc' = o.pc
              /\ http' = o.http
              /\ parsed' = o.parsed
              /\ thrown' = o.thrown
              /\ result' = o.result
    /\ UNCHANGED <<heybeautyApiKey, resp>>

\* The client's methods called directly, on a client built with key k.
ClientGetClothes ==
    /\ pc = "idle"
    /\ \E k \in ClientKeys :
          LET r == [NoReq EXCEPT !.kind = "getClothes", !.auth = Str(k)]
              o == Start(r, heybeautyApiKey)
          IN  /\ req' = r
              /\ pc' = o.pc
              /\ http' = o.http
              /\ parsed' = o.parsed
              /\ thrown' = o.thrown
              /\ result' = o.result
    /\ UNCHANGED <<heybeautyApiKey, resp>>

ClientSubmitTask ==
    /\ pc = "idle"
    /\ \E k \in ClientKeys, g \in SubmitClientArgs :
          LET r == [NoReq EXCEPT !.kind = "submitTask", !.auth = Str(k), !.args = g]
              o == Start(r, heybeautyApiKey)
          IN  /\ req' = r
              /\ pc' = o.pc
              /\ http' = o.http
              /\ parsed' = o.parsed
              /\ thrown' = o.thrown
              /\ result' = o.result
    /\ UNCHANGED <<heybeautyApiKey, resp>>

ClientQueryTask ==
    /\ pc = "idle"
    /\ \E k \in ClientKeys, g \in QueryClientArgs :
          LET r == [NoReq EXCEPT !.kind = "queryTask", !.auth = Str(k), !.args = g]
              o == Start(r, heybeautyApiKey)
          IN  /\ req' = r
              /\ pc' = o.pc
              /\ http' = o.http
              /\ parsed' = o.parsed
              /\ thrown' = o.thrown
              /\ result' = o.result
    /\ UNCHANGED <<heybeautyApiKey, resp>>

\* The pending fetch settles and the handler runs to its end.
FetchSettles ==
    /\ pc = "fetch"
    /\ \E rsp \in ResponsesFor(http[Len(http)]) :
          LET o == Settle(req, http, rsp)
          IN  /\ pc' = o.pc
              /\ http' = o.http
              /\ parsed' = parsed + o.parsed
              /\ thrown' = o.thrown
              /\ result' = o.result
              /\ resp' = rsp
    /\ UNCHANGED <<heybeautyApiKey, req>>

\* The caller has its answer; nothing of the request is kept.
Return ==
    /\ pc = "done"
    /\ pc' = "idle"
    /\ req' = NoReq
    /\ http' = <<>>
    /\ resp' = NoResp
    /\ parsed' = 0
    /\ thrown' = Undef
    /\ result' = NoResult
    /\ UNCHANGED heybeautyApiKey

Next ==
    \/ ListResources
    \/ ReadResource
    \/ ListTools
    \/ CallTool
    \/ ListPrompts
    \/ GetPrompt
    \/ ClientGetClothes
    \/ ClientSubmitTask
    \/ ClientQueryTask
    \/ FetchSettles
    \/ Return

Spec == Init /\ [][Next]_vars

(***************************************************************************)
(* The properties.                                                         *)
(***************************************************************************)
McpKinds ==
    {"ListResources", "ReadResource", "ListTools", "CallTool", "ListPrompts", "GetPrompt"}
RemoteKinds == {"ListResources", "ReadResource", "CallTool"}
ClientKinds == {"getClothes", "submitTask", "queryTask"}

\* Neither the request nor the process supplies an API key.
KeyAbsent == req.auth \in {Undef, Str("")} /\ heybeautyApiKey = ""

InHandling == pc # "idle"
Done == pc = "done"

\* The pending call was answered with an HTTP response (not a network error).
Answered == Done /\ Len(http) > 0 /\ ~resp.net
OkStatus == resp.status >= 200 /\ resp.status <= 299
GoodEnvelope == Answered /\ OkStatus /\ resp.json /\ resp.code = 0

SubmitTool == req.kind = "CallTool" /\ req.name = "submit_tryon_task"
QueryTool == req.kind = "CallTool" /\ req.name = "query_tryon_task"

AuthFailure ==
    /\ Done
    /\ ~result.ok
    /\ thrown = Str("HEYBEAUTY_API_KEY is not set")
    /\ http = <<>>
    /\ resp = NoResp

\* C1 as stated: in each of the six request categories, a request without any API
\* key ends in the "API key not set" failure, with no remote call made.
C1_AuthFirstInEveryCategory ==
    (InHandling /\ req.kind \in McpKinds /\ KeyAbsent) => AuthFailure

\* C1 as amended: list resources, read resource and call tool fail that way before
\* anything else; list tools, list prompts and get prompt never look at the key and
\* answer as they do with one (get prompt failing only on an unknown name).
C1_AuthFirstWhereRemoteIsCalled ==
    (InHandling /\ KeyAbsent) =>
        /\ req.kind \in RemoteKinds =>
              /\ AuthFailure
              /\ result.error \in {"get resources failed: HEYBEAUTY_API_KEY is not set",
                                   "read resource failed: HEYBEAUTY_API_KEY is not set",
                                   "call tool failed: HEYBEAUTY_API_KEY is not set"}
        /\ req.kind \in {"ListTools", "ListPrompts"} => Done /\ result.ok
        /\ req.kind = "GetPrompt" =>
              /\ Done
              /\ result.ok <=> req.name = "tryon_cloth"
              /\ thrown \in {Undef, Str("Unknown prompt")}

C1_Witness ==
    /\ Done
    /\ KeyAbsent
    /\ SubmitTool
    /\ req.args.user_img_url = Str("https://x/u.jpg")
    /\ req.args.cloth_img_url = Str("https://x/c.jpg")
    /\ ~result.ok

\* C2: every listed resource has the URI cloth:///{cloth_id}, and reading that URI
\* while the remote returns the same list succeeds with the cloth_img_url of the item
\* the URI was made from.
C2_ResourceRoundTrip ==
    /\ (GoodEnvelope /\ req.kind = "ListResources" /\ resp.data.t = "array") =>
          /\ result.ok
          /\ Len(result.value.resources) = Len(resp.data.v)
          /\ \A i \in 1..Len(resp.data.v) :
                result.value.resources[i].uri =
                    <<"c", "l", "o", "t", "h", ":", "/", "/", "/">> \o resp.data.v[i].cloth_id
    /\ (GoodEnvelope /\ req.kind = "ReadResource" /\ resp.data.t = "array") =>
          \A i \in 1..Len(resp.data.v) :
             req.uri = <<"c", "l", "o", "t", "h", ":", "/", "/", "/">> \o resp.data.v[i].cloth_id
                => /\ result.ok
                   /\ result.value.contents[1].text = resp.data.v[i].cloth_img_url

\* C3: a query_tryon_task call with an empty task_id and an API key fails with
\* "task id is required", and at no point of its handling is an HTTP request issued.
C3_EmptyTaskIdFailsBeforeHttp ==
    (InHandling /\ QueryTool /\ ~KeyAbsent /\ req.args.task_id = Str("")) =>
        /\ Done
        /\ ~result.ok
        /\ thrown = Str("task id is required")
        /\ result.error = "call tool failed: task id is required"
        /\ http = <<>>
        /\ resp = NoResp

C3_Witness ==
    Done /\ QueryTool /\ ~KeyAbsent /\ req.args.task_id = Str("") /\ ~result.ok

\* C4: submitTask with an empty user_img_url or cloth_img_url fails with a validation
\* error and issues no HTTP request, whatever cloth_id and cloth_description are; so
\* does the submit_tryon_task tool when either argument is missing or empty.
C4_EmptyImageUrlFailsBeforeHttp ==
    /\ (InHandling /\ req.kind = "submitTask"
          /\ (req.args.user_img_url = Str("") \/ req.args.cloth_img_url = Str(""))) =>
          /\ Done
          /\ ~result.ok
          /\ result.error = "user_img_url and cloth_img_url are required"
          /\ http = <<>>
          /\ resp = NoResp
    /\ (InHandling /\ SubmitTool /\ ~KeyAbsent
          /\ (req.args.user_img_url \in {Undef, Str("")}
                \/ req.args.cloth_img_url \in {Undef, Str("")})) =>
          /\ Done
          /\ ~result.ok
          /\ result.error \in {"call tool failed: user image is required",
                               "call tool failed: cloth image is required"}
          /\ http = <<>>
          /\ resp = NoResp

C4_Witness ==
    /\ Done
    /\ req.kind = "submitTask"
    /\ req.args.user_img_url = Str("")
    /\ req.args.cloth_img_url = Str("https://x/c.jpg")
    /\ req.args.cloth_id = Str("c-7")
    /\ req.args.cloth_description = Undef
    /\ ~result.ok

\* The body of the call to the submit endpoint, when one was issued.
SubmitIssued ==
    /\ Len(http) > 0
    /\ (req.kind = "submitTask" \/ SubmitTool)
    /\ http[1].url = "https://heybeauty.ai/api/mcp-vton"

FixedKeys == {"user_img_url", "cloth_img_url", "category", "is_sync"}

FixedFields(body) ==
    /\ body.user_img_url = req.args.user_img_url
    /\ body.cloth_img_url = req.args.cloth_img_url
    /\ body.category = Str("1")
    /\ body.is_sync = Str("0")

\* C5 as stated: the body holds the four fixed fields, a cloth_id key exactly when
\* cloth_id was supplied and a caption key exactly when cloth_description was, each
\* with the supplied value, and nothing else.
C5_OptionalKeysWhenSupplied ==
    SubmitIssued =>
        LET body == http[1].body
        IN  /\ FixedFields(body)
            /\ DOMAIN body = FixedKeys
                  \cup (IF req.args.cloth_id # Undef THEN {"cloth_id"} ELSE {})
                  \cup (IF req.args.cloth_description # Undef THEN {"caption"} ELSE {})
            /\ req.args.cloth_id # Undef => body.cloth_id = req.args.cloth_id
            /\ req.args.cloth_description # Undef => body.caption = req.args.cloth_description

\* C5 as amended: the optional keys are there exactly when the value supplied is a
\* non-empty string; an empty string counts as not supplied, in submitTask and in
\* the tool alike.
C5_OptionalKeysWhenNonEmpty ==
    SubmitIssued =>
        LET body == http[1].body
            hasId == req.args.cloth_id \notin {Undef, Str("")}
            hasCaption == req.args.cloth_description \notin {Undef, Str("")}
        IN  /\ FixedFields(body)
            /\ DOMAIN body = FixedKeys
                  \cup (IF hasId THEN {"cloth_id"} ELSE {})
                  \cup (IF hasCaption THEN {"caption"} ELSE {})
            /\ hasId => body.cloth_id = req.args.cloth_id
            /\ hasCaption => body.caption = req.args.cloth_description

C5_Witness ==
    /\ SubmitIssued
    /\ SubmitTool
    /\ req.args.cloth_id = Str("c-7")
    /\ req.args.cloth_description = Str("")
    /\ DOMAIN http[1].body = FixedKeys \cup {"cloth_id"}

\* C6: on a response whose status is outside 200-299, getClothes, submitTask and
\* queryTask fail with an error that carries the status, and resp.json() is not called.
C6_BadStatusFailsUnparsed ==
    (Answered /\ ~OkStatus) =>
        /\ ~result.ok
        /\ parsed = 0
        /\ thrown = Str((IF req.kind = "queryTask" \/ QueryTool
                         THEN "request failed with status: "
                         ELSE "request failed with status ") \o ToString(resp.status))
        /\ req.kind \in ClientKinds => result.error = thrown.v

C6_Witness ==
    /\ Answered
    /\ req.kind = "queryTask"
    /\ resp.status = 300
    /\ resp.json
    /\ resp.code = 0
    /\ resp.data.t = "object"
    /\ result.error = "request failed with status: 300"

\* C7: on a 2xx response whose envelope code is not 0, the three methods fail, the
\* error text is the envelope's message as it came, and no data reaches the caller.
C7_NonZeroCodeFailsWithMessage ==
    (Answered /\ OkStatus /\ resp.json /\ resp.code # 0) =>
        /\ ~result.ok
        /\ thrown = Str(resp.message)
        /\ result.value = Undef
        /\ req.kind \in ClientKinds => result.error = resp.message

C7_Witness ==
    /\ Answered
    /\ OkStatus
    /\ req.kind = "submitTask"
    /\ resp.json
    /\ resp.code = -1
    /\ resp.message = "invalid api key"
    /\ resp.data.t = "object"
    /\ result.error = "invalid api key"

\* C8 as stated: every failure of an MCP request reaches the caller as the name of
\* the failed operation, as a prefix, followed by the cause.
C8_EveryFailurePrefixed ==
    (Done /\ req.kind \in McpKinds /\ ~result.ok) =>
        \E prefix \in {"get resources failed: ", "read resource failed: ",
                       "call tool failed: ", "get prompt failed: "} :
            result.error = prefix \o thrown.v

\* C8 as amended: that holds of list resources, read resource and call tool; the one
\* failure of get prompt, the unknown name, reaches the caller as thrown, without a
\* prefix; list tools and list prompts do not fail.
C8_FailurePrefixedWhereCaught ==
    (Done /\ req.kind \in McpKinds /\ ~result.ok) =>
        /\ thrown.t = "string"
        /\ req.kind = "ListResources" => result.error = "get resources failed: " \o thrown.v
        /\ req.kind = "ReadResource" => result.error = "read resource failed: " \o thrown.v
        /\ req.kind = "CallTool" => result.error = "call tool failed: " \o thrown.v
        /\ req.kind = "GetPrompt" =>
              result.error = "Unknown prompt" /\ req.name # "tryon_cloth"
        /\ req.kind \notin {"ListTools", "ListPrompts"}

C8_Witness ==
    /\ Done
    /\ req.kind = "ReadResource"
    /\ thrown = Str("Cloth a%20b not found")
    /\ result.error = "read resource failed: Cloth a%20b not found"

\* C9: on an envelope with code 0 whose data is a task record, queryTask returns the
\* task_id it was called with, whatever uuid the data holds, and the data's
\* tryon_img_url, or "" when the data has none.
C9_QueryKeepsCallerTaskId ==
    (GoodEnvelope /\ resp.data.t = "object" /\ (req.kind = "queryTask" \/ QueryTool)) =>
        LET res == IF QueryTool THEN result.value.content[1].text ELSE result.value.v
            called == IF QueryTool /\ req.args.task_id = Undef THEN Str("undefined")
                      ELSE req.args.task_id
            remote == resp.data.v.tryon_img_url
        IN  /\ result.ok
            /\ {"task_id", "tryon_img_url"} \subseteq DOMAIN res
            /\ res.task_id = called
            /\ res.tryon_img_url = (IF remote = Undef THEN Str("") ELSE remote)

C9_Witness ==
    /\ GoodEnvelope
    /\ req.kind = "queryTask"
    /\ req.args.task_id = Str("t-1")
    /\ resp.data.t = "object"
    /\ resp.data.v.uuid = Str("abc123")
    /\ resp.data.v.tryon_img_url = Undef
    /\ result.ok

\* C10 as stated: a request that runs to its answer has issued one HTTP call, two
\* for read-resource; after a failure no further call is issued.
C10_OneCallTwoForReadResource ==
    /\ (Done /\ result.ok /\ req.kind \in RemoteKinds) =>
          Len(http) = (IF req.kind = "ReadResource" THEN 2 ELSE 1)
    /\ thrown # Undef => Done

\* C10 as amended: a request issues at most one HTTP call, read-resource too: the
\* handlers that call the remote have issued exactly one when they answer, the
\* static ones none; once an error is thrown the handling is over, no call follows.
C10_AtMostOneCallNoRetry ==
    /\ Len(http) <= 1
    /\ (Done /\ result.ok /\ req.kind \in RemoteKinds \cup ClientKinds) => Len(http) = 1
    /\ req.kind \in {"ListTools", "ListPrompts", "GetPrompt"} => http = <<>>
    /\ thrown # Undef => Done

C10_Witness ==
    Done /\ req.kind = "ReadResource" /\ result.ok /\ Len(http) = 1 /\ parsed = 1

====
